---- MODULE Spec2Model ----
(***************************************************************************)
(* Model of NPCList (src/game/npc/list.rs): a fixed array of RefCell<NPC>  *)
(* slots, the allocation cursor max_npc, the two placement operations,     *)
(* clear(), and the two iterators that re-read the cursor on every step.   *)
(*                                                                         *)
(* A RefCell is modelled by its borrow flag, split in two counters per     *)
(* slot: readers (outstanding Ref guards) and writers (outstanding RefMut  *)
(* guards).  borrow() panics when a writer is out, borrow_mut() and        *)
(* replace() panic when any guard is out, try_borrow() reports the same    *)
(* condition as borrow() without panicking.  A panic ends the program:     *)
(* the state is left as it was at the panicking call and no further step   *)
(* is taken.                                                               *)
(*                                                                         *)
(* The per-entity rng state (NPC::init_rng, defined outside list.rs) and   *)
(* the registry seed that feeds it are not part of the state: nothing in   *)
(* list.rs reads them back.                                                *)
(***************************************************************************)
EXTENDS Integers, Sequences, FiniteSets, TLC

\* Number of slots of the store built by new() in the exhaustive
\* specifications (the program builds NPC_LIST_MAX_CAP of them).
StoreLen == 2

\* Largest number of Ref guards callers hold on one slot at a time.
MaxReaders == 1

\* Largest number of guards (Ref or RefMut) callers hold at a time, over
\* all slots.
MaxGuards == 2

VARIABLES
    npcs,       \* slot index -> NPC value (the content of the RefCell)
    readers,    \* slot index -> number of outstanding Ref guards
    writers,    \* slot index -> number of outstanding RefMut guards
    max_npc,    \* the allocation cursor (Cell<u16>)
    panicked,   \* TRUE once a call has panicked
    last,       \* the last call made on the registry and what it returned
                \* (for clear(), arg is the cursor it found)
    placed_hi,  \* highest index placed since the last clear(), -1 if none
    iter,       \* NPCListMutableIterator in flight: [state, index]
    visited,    \* indices it has yielded, in order
    raised,     \* highest cursor value a placement set while it was in flight
    alive_iter, \* NPCListMutableAliveIterator in flight: [state, index]
    scn         \* position in the run of test_npc_list: [pc, ctr, i]

vars == <<npcs, readers, writers, max_npc, panicked, last, placed_hi,
          iter, visited, raised, alive_iter, scn>>

----------------------------------------------------------------------------
(* NPC values *)

\* NPC::empty(): not alive, id 0, direction Left (0), no script direction.
NPCEmpty == [id |-> 0, alive |-> FALSE, tsc_direction |-> 0, direction |-> 0]

\* The entities callers hand to spawn / spawn_at_slot.  The first is the
\* one the test builds (empty, then set_alive(true)); the second is handed
\* over not alive, carries a stale id and faces Right (2).
Entities ==
    { [id |-> 0, alive |-> TRUE,  tsc_direction |-> 0, direction |-> 0],
      [id |-> 7, alive |-> FALSE, tsc_direction |-> 0, direction |-> 2] }

Max(a, b) == IF a >= b THEN a ELSE b

\* self.npcs.len()
NpcLen(ns) == Cardinality(DOMAIN ns)

----------------------------------------------------------------------------
(* RefCell borrow rules *)

\* RefCell::try_borrow().is_ok(): no RefMut guard is out.
CanBorrow(w, i) == w[i] = 0

\* CanBorrowMut, looking at the RefMut guards only.
CanBorrowMutNoReaders(r, w, i) == w[i] = 0

\* RefCell::try_borrow_mut().is_ok(): no guard at all is out.
CanBorrowMut(r, w, i) == r[i] = 0 /\ w[i] = 0

\* Number of guards out on the slots below n.
RECURSIVE GuardsBelow(_, _, _)
GuardsBelow(r, w, n) ==
    IF n = 0 THEN 0 ELSE r[n - 1] + w[n - 1] + GuardsBelow(r, w, n - 1)

TotalGuards(r, w) == GuardsBelow(r, w, NpcLen(r))

----------------------------------------------------------------------------
(* NPCList::new *)

NewStore(n) == [i \in 0..(n - 1) |-> [NPCEmpty EXCEPT !.id = i]]

NoCall == [op |-> "new", arg |-> 0, ret |-> "ok", slot |-> -1]

\* The registry as new() leaves it, with n slots.
InitStore(n) ==
    /\ npcs = NewStore(n)
    /\ readers = [i \in 0..(n - 1) |-> 0]
    /\ writers = [i \in 0..(n - 1) |-> 0]
    /\ max_npc = 0
    /\ panicked = FALSE
    /\ last = NoCall
    /\ placed_hi = -1
    /\ iter = [state |-> "idle", index |-> 0]
    /\ visited = <<>>
    /\ raised = 0
    /\ alive_iter = [state |-> "idle", index |-> 0]

Init ==
    /\ InitStore(StoreLen)
    /\ scn = [pc |-> "off", ctr |-> 0, i |-> 0]

----------------------------------------------------------------------------
(* Placement *)

\* Prepare, forgetting `npc.id = id`.
PrepareKeepId(npc, id) ==
    [npc EXCEPT !.tsc_direction = IF npc.tsc_direction = 0
                                  THEN npc.direction
                                  ELSE npc.tsc_direction]

\* The field preparation both placements do before storing the entity.
Prepare(npc, id) ==
    [npc EXCEPT !.id = id,
                !.tsc_direction = IF npc.tsc_direction = 0
                                  THEN npc.direction
                                  ELSE npc.tsc_direction]

\* AdvanceCursor, with the test written `max_npc < id`.
AdvanceCursorStrict(cur, id) == IF cur < id THEN id + 1 ELSE cur

\* AdvanceCursor, without the `max_npc <= id` test.
AdvanceCursorAlways(cur, id) == id + 1

\* The cursor after a placement at id.
AdvanceCursor(cur, id) == IF cur <= id THEN id + 1 ELSE cur

\* The index at which a loop over an ascending range stops, given the set
\* of indices in the range that pass its stop test: the smallest of them,
\* or -1 when none does.
FirstIndex(S) == IF S = {} THEN -1 ELSE CHOOSE k \in S : \A j \in S : k <= j

\* ScanFrom, without the `!npc_ref.cond.alive()` test.
ScanFromAnyContent(ns, w, id) ==
    FirstIndex({k \in id..(NpcLen(ns) - 1) : CanBorrow(w, k)})

\* ScanFrom, with the loop written `for id in 0..npc_len`.
ScanFromZero(ns, w, id) ==
    FirstIndex({k \in 0..(NpcLen(ns) - 1) :
                  CanBorrow(w, k) /\ ~ns[k].alive})

\* The scan of spawn(), `for id in min_id..npc_len`: the slot the loop
\* stops at, or -1 when it runs off the end.  A slot stops the loop when
\* try_borrow() succeeds on it and its content is not alive.
ScanFrom(ns, w, id) ==
    FirstIndex({k \in id..(NpcLen(ns) - 1) :
                  CanBorrow(w, k) /\ ~ns[k].alive})

\* SpawnResult, with the bounds test written `min_id > npc_len`.
SpawnResultLooseBound(ns, r, w, cur, min_id, npc) ==
    LET k == ScanFrom(ns, w, min_id) IN
    IF min_id > NpcLen(ns)
    THEN [ret |-> "err_bounds", slot |-> -1, npcs |-> ns, max_npc |-> cur]
    ELSE IF k = -1
    THEN [ret |-> "err_full", slot |-> -1, npcs |-> ns, max_npc |-> cur]
    ELSE IF ~CanBorrowMut(r, w, k)
    THEN [ret |-> "panic", slot |-> k, npcs |-> ns, max_npc |-> cur]
    ELSE [ret |-> "ok", slot |-> k,
          npcs |-> [ns EXCEPT ![k] = Prepare(npc, k)],
          max_npc |-> AdvanceCursor(cur, k)]

\* spawn(min_id, npc): what it returns, the slot it selected, and the store
\* and cursor it leaves.  replace() on the selected slot panics when a Ref
\* guard is out on it (a RefMut guard would have made try_borrow() fail).
SpawnResult(ns, r, w, cur, min_id, npc) ==
    LET k == ScanFrom(ns, w, min_id) IN
    IF min_id >= NpcLen(ns)
    THEN [ret |-> "err_bounds", slot |-> -1, npcs |-> ns, max_npc |-> cur]
    ELSE IF k = -1
    THEN [ret |-> "err_full", slot |-> -1, npcs |-> ns, max_npc |-> cur]
    ELSE IF ~CanBorrowMut(r, w, k)
    THEN [ret |-> "panic", slot |-> k, npcs |-> ns, max_npc |-> cur]
    ELSE [ret |-> "ok", slot |-> k,
          npcs |-> [ns EXCEPT ![k] = Prepare(npc, k)],
          max_npc |-> AdvanceCursor(cur, k)]

\* SpawnAtSlotResult, placing only into a slot that is not alive.
SpawnAtSlotResultIfDead(ns, r, w, cur, id, npc) ==
    IF id >= NpcLen(ns)
    THEN [ret |-> "err_bounds", slot |-> -1, npcs |-> ns, max_npc |-> cur]
    ELSE IF ~CanBorrowMut(r, w, id)
    THEN [ret |-> "panic", slot |-> id, npcs |-> ns, max_npc |-> cur]
    ELSE IF ns[id].alive
    THEN [ret |-> "err_full", slot |-> -1, npcs |-> ns, max_npc |-> cur]
    ELSE [ret |-> "ok", slot |-> id,
          npcs |-> [ns EXCEPT ![id] = Prepare(npc, id)],
          max_npc |-> AdvanceCursor(cur, id)]

\* spawn_at_slot(id, npc): replace() on the target panics when any guard
\* is out on it.
SpawnAtSlotResult(ns, r, w, cur, id, npc) ==
    IF id >= NpcLen(ns)
    THEN [ret |-> "err_bounds", slot |-> -1, npcs |-> ns, max_npc |-> cur]
    ELSE IF ~CanBorrowMut(r, w, id)
    THEN [ret |-> "panic", slot |-> id, npcs |-> ns, max_npc |-> cur]
    ELSE [ret |-> "ok", slot |-> id,
          npcs |-> [ns EXCEPT ![id] = Prepare(npc, id)],
          max_npc |-> AdvanceCursor(cur, id)]

\* The state a placement call leaves, given what the call computed.
Placed(op, arg, res) ==
    /\ npcs' = res.npcs
    /\ max_npc' = res.max_npc
    /\ panicked' = (res.ret = "panic")
    /\ last' = [op |-> op, arg |-> arg, ret |-> res.ret, slot |-> res.slot]
    /\ placed_hi' = IF res.ret = "ok" THEN Max(placed_hi, res.slot)
                    ELSE placed_hi
    /\ raised' = IF iter.state = "running" /\ res.max_npc > max_npc
                 THEN Max(raised, res.max_npc) ELSE raised
    /\ UNCHANGED <<scn, readers, writers, iter, visited, alive_iter>>

Spawn(min_id, npc) ==
    /\ ~panicked
    /\ Placed("spawn", min_id,
              SpawnResult(npcs, readers, writers, max_npc, min_id, npc))

SpawnAtSlot(id, npc) ==
    /\ ~panicked
    /\ Placed("spawn_at_slot", id,
              SpawnAtSlotResult(npcs, readers, writers, max_npc, id, npc))

----------------------------------------------------------------------------
(* Lookup *)

\* GetNpcResult, with the bounds test off by one.
GetNpcResultLoose(ns, id) == IF id <= NpcLen(ns) THEN id ELSE -1

\* get_npc(id): self.npcs.get(id), the slot handed out (-1 for None).
GetNpcResult(ns, id) == IF id < NpcLen(ns) THEN id ELSE -1

\* get_npc(id), the handle not used yet.
GetNpc(id) ==
    /\ ~panicked
    /\ LET h == GetNpcResult(npcs, id) IN
       last' = [op |-> "get_npc", arg |-> id,
                ret |-> IF h = -1 THEN "none" ELSE "some", slot |-> h]
    /\ UNCHANGED <<scn, npcs, readers, writers, max_npc, panicked, placed_hi,
                   iter, visited, raised, alive_iter>>

----------------------------------------------------------------------------
(* Iterators *)

\* IterNextResult, with the test written `index > max_npc`.
IterNextResultPast(ns, cur, index) ==
    IF index > cur THEN [item |-> -1, index |-> index]
    ELSE [item |-> IF index < NpcLen(ns) THEN index ELSE -1,
          index |-> index + 1]

\* IterNextResult, walking up to the capacity instead of the cursor.
IterNextResultToCapacity(ns, cur, index) ==
    IF index >= NpcLen(ns) THEN [item |-> -1, index |-> index]
    ELSE [item |-> IF index < NpcLen(ns) THEN index ELSE -1,
          index |-> index + 1]

\* IterNextResult, stopping one short of the cursor.
IterNextResultShort(ns, cur, index) ==
    IF index + 1 >= cur THEN [item |-> -1, index |-> index]
    ELSE [item |-> IF index < NpcLen(ns) THEN index ELSE -1,
          index |-> index + 1]

\* NPCListMutableIterator::next: the slot yielded (-1 for None) and the
\* iterator's index afterwards.
IterNextResult(ns, cur, index) ==
    IF index >= cur THEN [item |-> -1, index |-> index]
    ELSE [item |-> IF index < NpcLen(ns) THEN index ELSE -1,
          index |-> index + 1]

\* The index the alive iterator is left with when its loop finds no slot to
\* yield: unchanged when it was at the cursor already, the cursor when the
\* loop ran up to it, one past the slot on which npcs.get() gave None
\* otherwise.
AliveEndIndex(ns, cur, index) ==
    IF index >= cur THEN index
    ELSE IF cur <= NpcLen(ns) THEN cur
    ELSE Max(index, NpcLen(ns)) + 1

\* AliveNextResult, reading the alive flag without try_borrow().
AliveNextResultNoTry(ns, w, cur, index) ==
    LET hi == IF cur <= NpcLen(ns) THEN cur ELSE NpcLen(ns)
        k == FirstIndex({j \in index..(hi - 1) : ns[j].alive})
    IN IF k = -1 THEN [item |-> -1, index |-> AliveEndIndex(ns, cur, index)]
       ELSE [item |-> k, index |-> k + 1]

\* AliveNextResult, leaving the index on the slot it yields.
AliveNextResultStuck(ns, w, cur, index) ==
    LET hi == IF cur <= NpcLen(ns) THEN cur ELSE NpcLen(ns)
        k == FirstIndex({j \in index..(hi - 1) :
                           CanBorrow(w, j) /\ ns[j].alive})
    IN IF k = -1 THEN [item |-> -1, index |-> AliveEndIndex(ns, cur, index)]
       ELSE [item |-> k, index |-> k]

\* NPCListMutableAliveIterator::next: the loop passes every slot below the
\* cursor on which try_borrow() fails or whose content is not alive, and
\* stops at the first one it can yield.
AliveNextResult(ns, w, cur, index) ==
    LET hi == IF cur <= NpcLen(ns) THEN cur ELSE NpcLen(ns)
        k == FirstIndex({j \in index..(hi - 1) :
                           CanBorrow(w, j) /\ ns[j].alive})
    IN IF k = -1 THEN [item |-> -1, index |-> AliveEndIndex(ns, cur, index)]
       ELSE [item |-> k, index |-> k + 1]

\* NPCList::iter
IterNew ==
    /\ ~panicked
    /\ iter' = [state |-> "running", index |-> 0]
    /\ visited' = <<>>
    /\ raised' = 0
    /\ last' = [op |-> "iter", arg |-> 0, ret |-> "ok", slot |-> -1]
    /\ UNCHANGED <<scn, npcs, readers, writers, max_npc, panicked, placed_hi,
                   alive_iter>>

IterNext ==
    /\ ~panicked
    /\ iter.state = "running"
    /\ LET res == IterNextResult(npcs, max_npc, iter.index) IN
       /\ iter' = [state |-> IF res.item = -1 THEN "done" ELSE "running",
                   index |-> res.index]
       /\ visited' = IF res.item = -1 THEN visited
                     ELSE Append(visited, res.item)
       /\ last' = [op |-> "next", arg |-> iter.index,
                   ret |-> IF res.item = -1 THEN "none" ELSE "some",
                   slot |-> res.item]
    /\ UNCHANGED <<scn, npcs, readers, writers, max_npc, panicked, placed_hi,
                   raised, alive_iter>>

\* NPCList::iter_alive
AliveNew ==
    /\ ~panicked
    /\ alive_iter' = [state |-> "running", index |-> 0]
    /\ last' = [op |-> "iter_alive", arg |-> 0, ret |-> "ok", slot |-> -1]
    /\ UNCHANGED <<scn, npcs, readers, writers, max_npc, panicked, placed_hi,
                   iter, visited, raised>>

AliveNext ==
    /\ ~panicked
    /\ alive_iter.state = "running"
    /\ LET res == AliveNextResult(npcs, writers, max_npc, alive_iter.index) IN
       /\ alive_iter' = [state |-> IF res.item = -1 THEN "done"
                                   ELSE "running",
                         index |-> res.index]
       /\ last' = [op |-> "alive_next", arg |-> alive_iter.index,
                   ret |-> IF res.item = -1 THEN "none" ELSE "some",
                   slot |-> res.item]
    /\ UNCHANGED <<scn, npcs, readers, writers, max_npc, panicked, placed_hi,
                   iter, visited, raised>>

----------------------------------------------------------------------------
(* clear *)

\* ClearLoop, giving each reset slot its own index as id.
RECURSIVE ClearLoopIndexIds(_, _, _, _, _, _)
ClearLoopIndexIds(ns, r, w, cur, index, idx) ==
    LET nx == AliveNextResult(ns, w, cur, index) IN
    IF nx.item = -1 THEN [ret |-> "ok", npcs |-> ns, slot |-> -1]
    ELSE IF ~CanBorrowMut(r, w, nx.item)
    THEN [ret |-> "panic", npcs |-> ns, slot |-> nx.item]
    ELSE ClearLoopIndexIds(
             [ns EXCEPT ![nx.item] = [NPCEmpty EXCEPT !.id = nx.item]],
             r, w, cur, nx.index, idx + 1)

\* The loop of clear(): idx counts the slots the alive iterator has yielded
\* so far.  replace() on a yielded slot panics when a Ref guard is out on
\* it; the slots reset before it stay reset.
RECURSIVE ClearLoop(_, _, _, _, _, _)
ClearLoop(ns, r, w, cur, index, idx) ==
    LET nx == AliveNextResult(ns, w, cur, index) IN
    IF nx.item = -1 THEN [ret |-> "ok", npcs |-> ns, slot |-> -1]
    ELSE IF ~CanBorrowMut(r, w, nx.item)
    THEN [ret |-> "panic", npcs |-> ns, slot |-> nx.item]
    ELSE ClearLoop([ns EXCEPT ![nx.item] = [NPCEmpty EXCEPT !.id = idx]],
                   r, w, cur, nx.index, idx + 1)

\* ClearResult, without `self.max_npc.replace(0)`.
ClearResultKeepCursor(ns, r, w, cur) ==
    LET res == ClearLoop(ns, r, w, cur, 0, 0) IN
    [ret |-> res.ret, slot |-> res.slot, npcs |-> res.npcs, max_npc |-> cur]

ClearResult(ns, r, w, cur) ==
    LET res == ClearLoop(ns, r, w, cur, 0, 0) IN
    [ret |-> res.ret, slot |-> res.slot, npcs |-> res.npcs,
     max_npc |-> IF res.ret = "ok" THEN 0 ELSE cur]

Clear ==
    /\ ~panicked
    /\ LET res == ClearResult(npcs, readers, writers, max_npc) IN
       /\ npcs' = res.npcs
       /\ max_npc' = res.max_npc
       /\ panicked' = (res.ret = "panic")
       /\ last' = [op |-> "clear", arg |-> max_npc, ret |-> res.ret,
                   slot |-> res.slot]
       /\ placed_hi' = IF res.ret = "ok" THEN -1 ELSE placed_hi
       /\ raised' = IF res.ret = "ok" THEN 0 ELSE raised
    /\ UNCHANGED <<scn, readers, writers, iter, visited, alive_iter>>

----------------------------------------------------------------------------
(* Callers: guards taken on slots, and entity logic *)

\* get_npc(i).borrow(), the guard kept.
Borrow(i) ==
    /\ ~panicked
    /\ IF CanBorrow(writers, i)
       THEN /\ readers[i] < MaxReaders
            /\ TotalGuards(readers, writers) < MaxGuards
            /\ readers' = [readers EXCEPT ![i] = @ + 1]
            /\ panicked' = FALSE
            /\ last' = [op |-> "borrow", arg |-> i, ret |-> "ok", slot |-> i]
       ELSE /\ readers' = readers
            /\ panicked' = TRUE
            /\ last' = [op |-> "borrow", arg |-> i, ret |-> "panic",
                        slot |-> i]
    /\ UNCHANGED <<scn, npcs, writers, max_npc, placed_hi, iter, visited, raised,
                   alive_iter>>

\* get_npc(i).borrow_mut(), the guard kept.
BorrowMut(i) ==
    /\ ~panicked
    /\ IF CanBorrowMut(readers, writers, i)
       THEN /\ TotalGuards(readers, writers) < MaxGuards
            /\ writers' = [writers EXCEPT ![i] = @ + 1]
            /\ panicked' = FALSE
            /\ last' = [op |-> "borrow_mut", arg |-> i, ret |-> "ok",
                        slot |-> i]
       ELSE /\ writers' = writers
            /\ panicked' = TRUE
            /\ last' = [op |-> "borrow_mut", arg |-> i, ret |-> "panic",
                        slot |-> i]
    /\ UNCHANGED <<scn, npcs, readers, max_npc, placed_hi, iter, visited, raised,
                   alive_iter>>

\* A Ref guard goes out of scope.
DropRef(i) ==
    /\ ~panicked
    /\ readers[i] > 0
    /\ readers' = [readers EXCEPT ![i] = @ - 1]
    /\ last' = [op |-> "drop", arg |-> 0, ret |-> "ok", slot |-> -1]
    /\ UNCHANGED <<scn, npcs, writers, max_npc, panicked, placed_hi, iter,
                   visited, raised, alive_iter>>

\* A RefMut guard goes out of scope.
DropRefMut(i) ==
    /\ ~panicked
    /\ writers[i] > 0
    /\ writers' = [writers EXCEPT ![i] = @ - 1]
    /\ last' = [op |-> "drop", arg |-> 0, ret |-> "ok", slot |-> -1]
    /\ UNCHANGED <<scn, npcs, readers, max_npc, panicked, placed_hi, iter,
                   visited, raised, alive_iter>>

\* Entity logic marks the entity in slot i not alive, the way the test
\* does: if borrow().cond.alive() { borrow_mut().cond.set_alive(false) }.
DeactivateResult(ns, r, w, i) ==
    IF ~CanBorrow(w, i) THEN [ret |-> "panic", npcs |-> ns]
    ELSE IF ~ns[i].alive THEN [ret |-> "ok", npcs |-> ns]
    ELSE IF ~CanBorrowMut(r, w, i) THEN [ret |-> "panic", npcs |-> ns]
    ELSE [ret |-> "ok", npcs |-> [ns EXCEPT ![i].alive = FALSE]]

Deactivate(i) ==
    /\ ~panicked
    /\ LET res == DeactivateResult(npcs, readers, writers, i) IN
       /\ npcs' = res.npcs
       /\ panicked' = (res.ret = "panic")
       /\ last' = [op |-> "deactivate", arg |-> 0, ret |-> res.ret,
                   slot |-> -1]
    /\ UNCHANGED <<scn, readers, writers, max_npc, placed_hi, iter, visited,
                   raised, alive_iter>>

\* The holder of the RefMut guard on slot i marks its entity not alive.
DeactivateHeld(i) ==
    /\ ~panicked
    /\ writers[i] > 0
    /\ npcs[i].alive
    /\ npcs' = [npcs EXCEPT ![i].alive = FALSE]
    /\ last' = [op |-> "deactivate", arg |-> 0, ret |-> "ok", slot |-> -1]
    /\ UNCHANGED <<scn, readers, writers, max_npc, panicked, placed_hi, iter,
                   visited, raised, alive_iter>>

----------------------------------------------------------------------------
(* Specifications *)

Slots == 0..(StoreLen - 1)

\* Arguments callers pass as min_id / id: every slot, the length, and one
\* past it (the test passes NPC_LIST_MAX_CAP + 1).
Ids == 0..(StoreLen + 1)

Next ==
    \/ \E m \in Ids, e \in Entities : Spawn(m, e)
    \/ \E m \in Ids, e \in Entities : SpawnAtSlot(m, e)
    \/ Clear
    \/ \E i \in Slots : Borrow(i)
    \/ \E i \in Slots : BorrowMut(i)
    \/ \E i \in Slots : DropRef(i)
    \/ \E i \in Slots : DropRefMut(i)
    \/ \E i \in Slots : Deactivate(i)
    \/ \E i \in Slots : DeactivateHeld(i)
    \/ \E id \in Ids : GetNpc(id)

Spec == Init /\ [][Next]_vars

\* The registry walked by the all-assigned iterator while the body of the
\* walk places, deactivates and clears (the loop of the test).
NextIter ==
    \/ IterNew
    \/ IterNext
    \/ \E m \in Ids, e \in Entities : Spawn(m, e)
    \/ \E m \in Ids, e \in Entities : SpawnAtSlot(m, e)
    \/ \E i \in Slots : Deactivate(i)
    \/ Clear

SpecIter == Init /\ [][NextIter]_vars

\* The registry walked by the alive-only iterator while the body of the
\* walk places and deactivates and while callers hold RefMut guards.
NextAlive ==
    \/ AliveNew
    \/ AliveNext
    \/ \E m \in Ids, e \in Entities : Spawn(m, e)
    \/ \E i \in Slots : BorrowMut(i)
    \/ \E i \in Slots : DropRefMut(i)
    \/ \E i \in Slots : DeactivateHeld(i)
    \/ \E i \in Slots : Deactivate(i)
    \/ Clear

SpecAlive == Init /\ [][NextAlive]_vars

\* Both iterators in flight at once (one walk nested in the body of the
\* other) while the bodies place, deactivate and clear.
NextWalks ==
    \/ IterNew
    \/ IterNext
    \/ AliveNew
    \/ AliveNext
    \/ \E m \in Ids, e \in Entities : Spawn(m, e)
    \/ \E m \in Ids, e \in Entities : SpawnAtSlot(m, e)
    \/ \E i \in Slots : Deactivate(i)
    \/ Clear

SpecWalks == Init /\ [][NextWalks]_vars

----------------------------------------------------------------------------
(* The run of test_npc_list, on a store of NPC_LIST_MAX_CAP slots *)

NPC_LIST_MAX_CAP == 512

\* The entity the test spawns: NPC::empty() with set_alive(true).
TestNpc == [id |-> 0, alive |-> TRUE, tsc_direction |-> 0, direction |-> 0]

\* The min ids of the first three spawns.
TestFirstIds == <<0, 2, 256>>

\* map.spawn(min_id, npc.clone()), the run going on at `after`.  With
\* try_ set (the call is followed by `?`) an error ends the run.
ScnSpawn(min_id, try_, after) ==
    LET res == SpawnResult(npcs, readers, writers, max_npc, min_id, TestNpc)
    IN /\ npcs' = res.npcs
       /\ max_npc' = res.max_npc
       /\ panicked' = (res.ret = "panic")
       /\ last' = [op |-> "spawn", arg |-> min_id, ret |-> res.ret,
                   slot |-> res.slot]
       /\ placed_hi' = IF res.ret = "ok" THEN Max(placed_hi, res.slot)
                       ELSE placed_hi
       /\ raised' = IF iter.state = "running" /\ res.max_npc > max_npc
                    THEN Max(raised, res.max_npc) ELSE raised
       /\ scn' = IF res.ret = "panic" \/ (try_ /\ res.ret # "ok")
                 THEN [scn EXCEPT !.pc = "failed"] ELSE after
       /\ UNCHANGED <<readers, writers, iter, visited, alive_iter>>

\* map.iter(), the run going on at `after`.
ScnIter(after) ==
    /\ iter' = [state |-> "running", index |-> 0]
    /\ visited' = <<>>
    /\ raised' = 0
    /\ last' = [op |-> "iter", arg |-> 0, ret |-> "ok", slot |-> -1]
    /\ scn' = after
    /\ UNCHANGED <<npcs, readers, writers, max_npc, panicked, placed_hi,
                   alive_iter>>

\* One next() of the for loop: the run goes on at `body` with the item, at
\* `skip` when `skipped` items have not been passed yet, at `end` on None.
ScnNext(skipped, body, skip, end) ==
    LET res == IterNextResult(npcs, max_npc, iter.index) IN
    /\ iter' = [state |-> IF res.item = -1 THEN "done" ELSE "running",
                index |-> res.index]
    /\ visited' = IF res.item = -1 THEN visited
                  ELSE Append(visited, res.item)
    /\ last' = [op |-> "next", arg |-> iter.index,
                ret |-> IF res.item = -1 THEN "none" ELSE "some",
                slot |-> res.item]
    /\ scn' = IF res.item = -1 THEN end
              ELSE IF Len(visited) < skipped THEN skip
              ELSE body
    /\ UNCHANGED <<npcs, readers, writers, max_npc, panicked, placed_hi,
                   raised, alive_iter>>

\* map.spawn(0, ..)?; map.spawn(2, ..)?; map.spawn(256, ..)?
ScnSetup ==
    /\ scn.pc = "setup"
    /\ ScnSpawn(TestFirstIds[scn.i + 1], TRUE,
                IF scn.i + 1 = Len(TestFirstIds)
                THEN [scn EXCEPT !.pc = "count3"]
                ELSE [scn EXCEPT !.i = @ + 1])

\* let mut ctr = 20; for npc_ref in map.iter()
ScnWalkStart ==
    /\ scn.pc = "count3"
    /\ ScnIter([pc |-> "walk_next", ctr |-> 20, i |-> 0])

ScnWalkNext ==
    /\ scn.pc = "walk_next"
    /\ ScnNext(0,
               [scn EXCEPT !.pc = IF scn.ctr > 0 THEN "walk_spawn100"
                                  ELSE "walk_tick"],
               scn,
               [scn EXCEPT !.pc = "count43"])

\* ctr -= 1; map.spawn(100, ..)?
ScnWalkSpawn100 ==
    /\ scn.pc = "walk_spawn100"
    /\ ScnSpawn(100, TRUE, [scn EXCEPT !.pc = "walk_spawn400", !.ctr = @ - 1])

\* map.spawn(400, ..)?
ScnWalkSpawn400 ==
    /\ scn.pc = "walk_spawn400"
    /\ ScnSpawn(400, TRUE, [scn EXCEPT !.pc = "walk_tick"])

\* if npc_ref.borrow().cond.alive() { npc_ref.borrow_mut().test_tick(..)? }
\* on the item the loop holds; test_tick only counts.
ScnWalkTick ==
    /\ scn.pc = "walk_tick"
    /\ LET item == visited[Len(visited)]
           ok == /\ CanBorrow(writers, item)
                 /\ npcs[item].alive => CanBorrowMut(readers, writers, item)
       IN /\ panicked' = ~ok
          /\ last' = [op |-> "tick", arg |-> item,
                      ret |-> IF ok THEN "ok" ELSE "panic", slot |-> item]
          /\ scn' = [scn EXCEPT !.pc = IF ok THEN "walk_next" ELSE "failed"]
    /\ UNCHANGED <<npcs, readers, writers, max_npc, placed_hi, iter, visited,
                   raised, alive_iter>>

\* for npc_ref in map.iter().skip(256)
ScnDeactStart ==
    /\ scn.pc = "count43"
    /\ ScnIter([scn EXCEPT !.pc = "deact_next"])

ScnDeactNext ==
    /\ scn.pc = "deact_next"
    /\ ScnNext(256,
               [scn EXCEPT !.pc = "deact_body"],
               scn,
               [scn EXCEPT !.pc = "count22"])

\* if npc_ref.borrow().cond.alive() { ...set_alive(false) }
ScnDeactBody ==
    /\ scn.pc = "deact_body"
    /\ LET item == visited[Len(visited)]
           res == DeactivateResult(npcs, readers, writers, item)
       IN /\ npcs' = res.npcs
          /\ panicked' = (res.ret = "panic")
          /\ last' = [op |-> "deactivate", arg |-> 0, ret |-> res.ret,
                      slot |-> -1]
          /\ scn' = [scn EXCEPT !.pc = IF res.ret = "ok" THEN "deact_next"
                                       ELSE "failed"]
    /\ UNCHANGED <<readers, writers, max_npc, placed_hi, iter, visited,
                   raised, alive_iter>>

\* map.spawn((NPC_LIST_MAX_CAP + 1) as u16, ..)
ScnSpawnOutside ==
    /\ scn.pc = "count22"
    /\ ScnSpawn(NPC_LIST_MAX_CAP + 1, FALSE, [scn EXCEPT !.pc = "clear"])

\* map.clear()
ScnClear ==
    /\ scn.pc = "clear"
    /\ LET res == ClearResult(npcs, readers, writers, max_npc) IN
       /\ npcs' = res.npcs
       /\ max_npc' = res.max_npc
       /\ panicked' = (res.ret = "panic")
       /\ last' = [op |-> "clear", arg |-> max_npc, ret |-> res.ret,
                   slot |-> res.slot]
       /\ placed_hi' = IF res.ret = "ok" THEN -1 ELSE placed_hi
       /\ raised' = IF res.ret = "ok" THEN 0 ELSE raised
       /\ scn' = IF res.ret = "ok" THEN [scn EXCEPT !.pc = "count0", !.i = 0]
                 ELSE [scn EXCEPT !.pc = "failed"]
    /\ UNCHANGED <<readers, writers, iter, visited, alive_iter>>

\* for i in 0..map.max_capacity() { map.spawn(i, ..)? }
ScnFill ==
    /\ scn.pc \in {"count0", "fill"}
    /\ scn.i < NpcLen(npcs)
    /\ ScnSpawn(scn.i, TRUE, [scn EXCEPT !.pc = "fill", !.i = @ + 1])

\* map.spawn(0, ..) after the loop
ScnSpawnFull ==
    /\ scn.pc = "fill"
    /\ scn.i = NpcLen(npcs)
    /\ ScnSpawn(0, FALSE, [scn EXCEPT !.pc = "done"])

InitScenario ==
    /\ InitStore(NPC_LIST_MAX_CAP)
    /\ scn = [pc |-> "setup", ctr |-> 0, i |-> 0]

NextScenario ==
    \/ ScnSetup
    \/ ScnWalkStart
    \/ ScnWalkNext
    \/ ScnWalkSpawn100
    \/ ScnWalkSpawn400
    \/ ScnWalkTick
    \/ ScnDeactStart
    \/ ScnDeactNext
    \/ ScnDeactBody
    \/ ScnSpawnOutside
    \/ ScnClear
    \/ ScnFill
    \/ ScnSpawnFull

SpecScenario == InitScenario /\ [][NextScenario]_vars

----------------------------------------------------------------------------
(* Properties *)

\* A slot spawn() may use: no RefMut guard is out on it and its content is
\* not alive.
Eligible(i) == writers[i] = 0 /\ ~npcs[i].alive

\* The content of slot k is entity e as a placement at k stores it.
Holds(ns, k, e) ==
    /\ ns[k].alive = e.alive
    /\ ns[k].direction = e.direction
    /\ ns[k].id = k

\* map.iter_alive().count(), as the test takes it.
RECURSIVE AliveCountFrom(_, _, _, _)
AliveCountFrom(ns, w, cur, index) ==
    LET nx == AliveNextResult(ns, w, cur, index) IN
    IF nx.item = -1 THEN 0 ELSE 1 + AliveCountFrom(ns, w, cur, nx.index)

AliveCount == AliveCountFrom(npcs, writers, max_npc, 0)

\* C1: a spawn(min_id, e) that succeeds stores e in the smallest slot
\* k >= min_id that is not alive and has no RefMut guard out, and changes no
\* other slot; a spawn that does not succeed stores nothing.
C1_SpawnSmallestEligible ==
    [][last'.op = "spawn" =>
        LET m == last'.arg
            k == last'.slot
        IN IF last'.ret = "ok"
           THEN /\ k \in Slots
                /\ k >= m
                /\ Eligible(k)
                /\ \A j \in m..(k - 1) : ~Eligible(j)
                /\ \E e \in Entities : Holds(npcs', k, e)
                /\ \A j \in Slots \ {k} : npcs'[j] = npcs[j]
           ELSE npcs' = npcs]_vars

\* C1 witness: a spawn succeeded past a slot that is not alive but has a
\* RefMut guard out.
C1_Witness ==
    /\ last.op = "spawn" /\ last.ret = "ok"
    /\ \E j \in last.arg..(last.slot - 1) : writers[j] > 0 /\ ~npcs[j].alive

\* C2 as stated: spawn_at_slot(id, e) succeeds whenever id is within the
\* store, whatever guards are out on the slot.
C2_AlwaysSucceedsInBounds ==
    last.op = "spawn_at_slot" => (last.ret = "ok" <=> last.arg < StoreLen)

\* C2 amended: spawn_at_slot(id, e) returns InvalidValue exactly when id is
\* out of bounds; within bounds it succeeds and overwrites the slot, alive
\* or not, when no guard is out on the slot, and panics leaving the store
\* and the cursor unchanged when a Ref or RefMut guard is out on it.
C2_SucceedsUnlessBorrowed ==
    [][last'.op = "spawn_at_slot" =>
        LET id == last'.arg IN
        /\ (last'.ret = "err_bounds") <=> (id >= StoreLen)
        /\ (id < StoreLen /\ readers[id] = 0 /\ writers[id] = 0)
              => /\ last'.ret = "ok"
                 /\ last'.slot = id
                 /\ \E e \in Entities : Holds(npcs', id, e)
        /\ (id < StoreLen /\ (readers[id] > 0 \/ writers[id] > 0))
              => /\ last'.ret = "panic"
                 /\ npcs' = npcs
                 /\ max_npc' = max_npc]_vars

\* C2 witness: spawn_at_slot succeeded on a slot below the highest one
\* placed, storing an alive entity.
C2_Witness ==
    /\ last.op = "spawn_at_slot" /\ last.ret = "ok"
    /\ npcs[last.slot].alive
    /\ last.slot < placed_hi

\* C3: the entity stored in slot i has id i, for every slot.
C3_IdEqualsIndex == \A i \in Slots : npcs[i].id = i

\* C4: right after a successful spawn or spawn_at_slot that selected slot k,
\* the entity in slot k has id k.
C4_PlacedIdIsSlot ==
    (last.op \in {"spawn", "spawn_at_slot"} /\ last.ret = "ok")
        => npcs[last.slot].id = last.slot

\* C4 witness: the entity handed over with id 7 (the one facing Right) was
\* placed.
C4_Witness ==
    /\ last.op \in {"spawn", "spawn_at_slot"} /\ last.ret = "ok"
    /\ npcs[last.slot].direction = 2
    /\ last.slot # 7

\* C5: the cursor is one more than the highest slot placed since the last
\* clear() (0 when none was), and no step but clear() lowers it.
C5_CursorIsHighWaterMark ==
    /\ [](max_npc = placed_hi + 1)
    /\ [][last'.op # "clear" => max_npc' >= max_npc]_vars

\* C5 witness: a placement below the highest placed slot left the cursor
\* where it was.
C5_Witness ==
    /\ last.op \in {"spawn", "spawn_at_slot"} /\ last.ret = "ok"
    /\ last.slot + 1 < max_npc

\* C6: when a walk of the all-assigned iterator ends, it has yielded every
\* index below the highest cursor value a placement set during the walk
\* (no clear() having come after that placement).
C6_WalkReachesRaisedCursor ==
    iter.state = "done" =>
        \A k \in 0..(raised - 1) : \E n \in 1..Len(visited) : visited[n] = k

\* C6 witness: a walk ended after placements during it raised the cursor to
\* the end of the store, and it yielded every slot.
C6_Witness ==
    /\ iter.state = "done"
    /\ raised = StoreLen
    /\ Len(visited) = StoreLen

\* C7: a step of the alive-only iterator from position p yields the
\* smallest index in p..cursor-1 whose entity is alive and which has no
\* RefMut guard out, passing over the others without a panic; it yields
\* nothing when there is no such index.
C7_AliveYieldsAliveNotBusy ==
    [][last'.op = "alive_next" =>
        LET p == alive_iter.index
            Yieldable == {k \in p..(max_npc - 1) :
                            npcs[k].alive /\ writers[k] = 0}
        IN /\ ~panicked'
           /\ npcs' = npcs
           /\ IF Yieldable = {}
              THEN last'.ret = "none" /\ alive_iter'.state = "done"
              ELSE /\ last'.ret = "some"
                   /\ last'.slot \in Yieldable
                   /\ \A k \in Yieldable : last'.slot <= k
                   /\ alive_iter'.index = last'.slot + 1]_vars

\* C7 witness: the iterator yielded a slot after passing over an alive one
\* that has a RefMut guard out.
C7_Witness ==
    /\ last.op = "alive_next" /\ last.ret = "some"
    /\ \E k \in last.arg..(last.slot - 1) : npcs[k].alive /\ writers[k] > 0

\* C8: right after clear() has returned, the cursor is 0 and the alive-only
\* iterator yields nothing.
C8_ClearEmpties ==
    (last.op = "clear" /\ last.ret = "ok") => (max_npc = 0 /\ AliveCount = 0)

\* C8 witness: clear() returned after resetting a slot other than the first
\* it visited (its id is not its index any more).
C8_Witness ==
    /\ last.op = "clear" /\ last.ret = "ok"
    /\ \E i \in Slots : npcs[i].id # i

\* C9: spawn(min_id, e) returns the out-of-bounds error exactly when min_id
\* is not below the store length, and the no-free-slot error exactly when
\* min_id is in bounds and every slot from min_id on is alive or has a
\* RefMut guard out; both leave the store and the cursor unchanged.
C9_SpawnErrors ==
    [][last'.op = "spawn" =>
        LET m == last'.arg
            NoFree == \A j \in m..(StoreLen - 1) : ~Eligible(j)
        IN /\ (last'.ret = "err_bounds") <=> (m >= StoreLen)
           /\ (last'.ret = "err_full") <=> (m < StoreLen /\ NoFree)
           /\ last'.ret \in {"err_bounds", "err_full"}
                 => (npcs' = npcs /\ max_npc' = max_npc)]_vars

\* C9 witness: spawn found no free slot, one of the slots it scanned being
\* not alive but under a RefMut guard.
C9_Witness ==
    /\ last.op = "spawn" /\ last.ret = "err_full"
    /\ \E j \in last.arg..(StoreLen - 1) : writers[j] > 0 /\ ~npcs[j].alive

C11_GetNpcInBoundsNoBorrow ==
    [][last'.op = "get_npc" =>
        /\ (last'.ret = "some") <=> (last'.arg < StoreLen)
        /\ last'.ret = "some" => last'.slot = last'.arg
        /\ npcs' = npcs
        /\ readers' = readers
        /\ writers' = writers
        /\ max_npc' = max_npc
        /\ ~panicked']_vars

\* C11 witness: get_npc handed out a slot at or above the cursor that has
\* a RefMut guard out.
C11_Witness ==
    /\ last.op = "get_npc" /\ last.ret = "some"
    /\ last.slot >= max_npc
    /\ writers[last.slot] = 1

\* C12: in the run of the test on the 512-slot store, the alive count is 3
\* after the first three spawns, 43 after the walk whose first 20 items
\* each spawn at min ids 100 and 400, 22 after every alive entity from
\* index 256 on is deactivated; spawn with min id 513 fails; the alive
\* count is 0 after clear(); spawn(i, e) then succeeds for every i in
\* 0..511 and one more spawn(0, e) fails for want of a free slot.
C12_TestScenario ==
    /\ scn.pc # "failed"
    /\ scn.pc = "count3" => AliveCount = 3
    /\ scn.pc = "count43" => AliveCount = 43
    /\ scn.pc = "count22" => AliveCount = 22
    /\ scn.pc = "clear" => last.ret = "err_bounds"
    /\ scn.pc = "count0" => AliveCount = 0
    /\ scn.pc = "fill" => (last.ret = "ok" /\ last.slot = scn.i - 1)
    /\ scn.pc = "done" => last.ret = "err_full"

\* C12 witness: the run reached its end, all 512 slots alive.
C12_Witness ==
    /\ scn.pc = "done"
    /\ \A i \in DOMAIN npcs : npcs[i].alive
    /\ max_npc = NPC_LIST_MAX_CAP

\* C13: the cursor stays within 0..capacity, no slot at or above it has been
\* placed since the last clear(), and every slot either iterator yields is
\* below the cursor read at that step.
C13_CursorBoundsWalks ==
    /\ [](max_npc \in 0..StoreLen /\ placed_hi < max_npc)
    /\ [][(last'.op \in {"next", "alive_next"} /\ last'.ret = "some")
            => (last'.slot >= 0 /\ last'.slot < max_npc)]_vars

\* C13 witness: an iterator yielded the last slot of the store, the cursor
\* being at the capacity.
C13_Witness ==
    /\ last.op \in {"next", "alive_next"} /\ last.ret = "some"
    /\ last.slot = StoreLen - 1
    /\ max_npc = StoreLen

\* C14: a clear() that returns has replaced the content of every slot its
\* alive-only walk visited (alive, below the cursor, no RefMut guard out)
\* by the empty NPC whose id is the number of slots visited before it, and
\* has left every other slot as it was.
C14_ClearIdsByVisitOrder ==
    [][(last'.op = "clear" /\ last'.ret = "ok") =>
        LET V == {k \in 0..(max_npc - 1) : npcs[k].alive /\ writers[k] = 0}
        IN \A k \in Slots :
              IF k \in V
              THEN npcs'[k] = [NPCEmpty EXCEPT
                                 !.id = Cardinality({j \in V : j < k})]
              ELSE npcs'[k] = npcs[k]]_vars

\* C14 witness: clear() returned and left id 0 in a slot other than slot 0.
C14_Witness ==
    /\ last.op = "clear" /\ last.ret = "ok"
    /\ \E k \in Slots \ {0} : npcs[k].id = 0 /\ npcs[k] = NPCEmpty

\* C15: the step of either iterator that comes right after a clear() that
\* returned yields nothing and ends the walk.
C15_WalkStopsAfterClear ==
    [][(last.op = "clear" /\ last.ret = "ok"
        /\ last'.op \in {"next", "alive_next"})
          => /\ last'.ret = "none"
             /\ visited' = visited
             /\ last'.op = "next" => iter'.state = "done"
             /\ last'.op = "alive_next" => alive_iter'.state = "done"]_vars

\* C15 witness: clear() returned while the all-assigned walk was at a
\* position p > 0 below the cursor clear() found.
C15_Witness ==
    /\ last.op = "clear" /\ last.ret = "ok"
    /\ iter.state = "running"
    /\ iter.index > 0
    /\ iter.index < last.arg

\* C16: after a clear() that returned, no slot holds an alive entity,
\* whatever guards callers held while it ran.
C16_ClearLeavesNoneAlive ==
    (last.op = "clear" /\ last.ret = "ok") => \A i \in Slots : ~npcs[i].alive

\* C17: a successful spawn or spawn_at_slot that selected slot k changes no
\* other slot's content and no guard count, and leaves the cursor at k + 1
\* when k was at or above it and unchanged otherwise.
C17_PlacementFrame ==
    [][(last'.op \in {"spawn", "spawn_at_slot"} /\ last'.ret = "ok") =>
        LET k == last'.slot IN
        /\ \A j \in Slots \ {k} : npcs'[j] = npcs[j]
        /\ readers' = readers
        /\ writers' = writers
        /\ max_npc' = (IF k >= max_npc THEN k + 1 ELSE max_npc)
        /\ max_npc' >= max_npc]_vars

\* C17 witness: a placement at the cursor moved it to k + 1 while a guard
\* was out on another slot.
C17_Witness ==
    /\ last.op \in {"spawn", "spawn_at_slot"} /\ last.ret = "ok"
    /\ max_npc = last.slot + 1
    /\ placed_hi = last.slot
    /\ \E j \in Slots \ {last.slot} : readers[j] + writers[j] > 0

\* C18: spawn never panics on a borrow conflict: it ends in success or in
\* one of the two InvalidValue errors, whatever guards are out.
C18_SpawnNeverPanics ==
    last.op = "spawn" => last.ret \in {"ok", "err_bounds", "err_full"}

\* C19: every slot holding an alive entity is below the cursor.
C19_AliveBelowCursor == \A i \in Slots : npcs[i].alive => i < max_npc

\* C20: in a walk of either iterator the index never passes the capacity,
\* each yielded slot is at or above the index before the step and below
\* the index after it, so the slots yielded in one walk strictly increase,
\* none is yielded twice and there are at most as many as slots.
C20_WalksStrictlyIncrease ==
    /\ [](/\ iter.index \in 0..StoreLen
          /\ alive_iter.index \in 0..StoreLen
          /\ Len(visited) <= StoreLen
          /\ \A a, b \in 1..Len(visited) :
                a < b => visited[a] < visited[b])
    /\ [][(last'.op = "next" /\ last'.ret = "some")
            => (iter.index <= last'.slot /\ last'.slot < iter'.index)]_vars
    /\ [][(last'.op = "alive_next" /\ last'.ret = "some")
            => (alive_iter.index <= last'.slot
                /\ last'.slot < alive_iter'.index)]_vars

\* C20 witness: both walks ran to the end of the store and ended, a
\* placement having raised the cursor during the all-assigned walk.
C20_Witness ==
    /\ iter.state = "done" /\ Len(visited) = StoreLen
    /\ alive_iter.state = "done" /\ alive_iter.index = StoreLen
    /\ raised > 0

====
